---- MODULE Spec2Model ----
(***************************************************************************)
(* Model of hw_ui_pixelcontroller.ino: an Arduino sketch that drives an    *)
(* LED strip from the state of jumper pins.  setup() runs once, then       *)
(* loop() runs forever; one loop() iteration is one frame.                 *)
(***************************************************************************)
EXTENDS Integers, Sequences, FiniteSets, TLC

(* ------------------------------------------------------------------ *)
(* Program constants                                                  *)
(* ------------------------------------------------------------------ *)
BASE_FSEL_PIN == 2
BSEL_PIN1 == 10
BSEL_PIN2 == 11
NUM_LEDS == 50
\* ARRAY_SIZE(gPatterns): red, multi, blue, green, white, rainbow
gPatterns == <<"red", "multi", "blue", "green", "white", "rainbow">>
NumPatterns == Len(gPatterns)
\* Period of EVERY_N_SECONDS( 60 ), in seconds
AutoPeriod == 60
\* deltahue argument of fill_rainbow
RainbowDelta == 7
\* uint8_t arithmetic
Byte == 256

LOW == 0
HIGH == 1

(* ------------------------------------------------------------------ *)
(* Bounds of the model                                                *)
(* ------------------------------------------------------------------ *)
\* at most this many function pins are grounded in one sample
MaxGrounded == 2
\* seconds that may pass during one frame: 0 or SecStep
SecStep == 20
\* the frame counter saturates here (1 = first loop iteration)
MaxFrame == 2
\* Spec lets the hue timer trigger only while gHue is below this; SpecHue
\* lets it run through the whole byte
MaxHue == 2

(* ------------------------------------------------------------------ *)
(* Values                                                             *)
(* ------------------------------------------------------------------ *)
FselPins == BASE_FSEL_PIN .. (BASE_FSEL_PIN + NumPatterns - 1)
BselPins == {BSEL_PIN1, BSEL_PIN2}
LedRange == 0 .. (NUM_LEDS - 1)
\* value of a local variable that has not been assigned in this iteration
Unset == -2
\* a timer object that has not been constructed yet
NotStarted == -1
AllHigh == [p \in FselPins |-> HIGH]
BselHigh == [p \in BselPins |-> HIGH]
\* the pin levels one frame can read from the function group
FselSamples == {s \in [FselPins -> {LOW, HIGH}] :
                   Cardinality({p \in FselPins : s[p] = LOW}) <= MaxGrounded}
BselSamples == [BselPins -> {LOW, HIGH}]
TimeSteps == {0, SecStep}
\* the smaller input sets of SpecHue: a jumper on the first or on the last
\* function pin or none at all, no brightness jumper
HuePins == {BASE_FSEL_PIN, BASE_FSEL_PIN + NumPatterns - 1}
FselHueSamples == {s \in FselSamples :
                      /\ \A p \in FselPins \ HuePins : s[p] = HIGH
                      /\ \E p \in HuePins : s[p] = HIGH}
BselHueSamples == {BselHigh}

RGB(r, g, b) == [kind |-> "rgb", c |-> <<r, g, b>>]
HSV(h, s, v) == [kind |-> "hsv", c |-> <<h, s, v>>]
\* CRGB's default constructor leaves the pixel black in the zeroed global
Black == RGB(0, 0, 0)

VARIABLES pc,                     \* position in setup() / loop()
          gCurrentPatternNumber,  \* index of the current pattern
          gCycle,                 \* auto-cycle flag
          gHue,                   \* rotating base colour
          function,               \* loop() local
          brightness,             \* loop() local
          fsel,                   \* levels digitalRead returned for FSEL pins this frame
          bsel,                   \* levels digitalRead returned for BSEL pins this frame
          applied,                \* argument of FastLED.setBrightness this frame
          leds,                   \* the pixel buffer
          written,                \* buffer elements assigned by this frame's renderer
          hueTimer,               \* EVERY_N_MILLISECONDS(20) object: constructed?
          autoElapsed,            \* seconds since EVERY_N_SECONDS(60) last triggered
          shownFor,               \* seconds the current index has been current
          edge,                   \* this frame's selector took the cycle-enable edge
          autoRun,                \* index advances by the 60 s timer since power-up,
                                  \* as long as no function pin has read low
          frame,                  \* saturating count of loop() iterations begun
          cfg,                    \* per pin: times it was made a pulled-up input
          log                     \* calls made in the current setup()/loop() run

vars == <<pc, gCurrentPatternNumber, gCycle, gHue, function, brightness, fsel,
          bsel, applied, leds, written, hueTimer, autoElapsed, shownFor,
          edge, autoRun, frame, cfg, log>>

selector == <<gCurrentPatternNumber, gCycle, gHue>>
locals == <<function, brightness, fsel, bsel, applied, written, edge>>
timers == <<hueTimer, autoElapsed>>

Min(a, b) == IF a < b THEN a ELSE b
\* value of autoRun once a function pin has read low
Overridden == NumPatterns + 1

(* ------------------------------------------------------------------ *)
(* Pure functions of the sketch                                       *)
(* ------------------------------------------------------------------ *)
\* lines 63-71: scan the FSEL pins upwards, return the offset of the first
\* one that reads low, -1 if none does
RECURSIVE ScanFrom(_, _)
ScanFrom(read, i) ==
    IF i >= NumPatterns THEN -1
    ELSE IF read[BASE_FSEL_PIN + i] = LOW THEN i
    ELSE ScanFrom(read, i + 1)

\* mutant: the scan keeps going and reports the last low pin
functionSelectLast(read) ==
    IF \A i \in 0 .. (NumPatterns - 1) : read[BASE_FSEL_PIN + i] # LOW THEN -1
    ELSE CHOOSE i \in 0 .. (NumPatterns - 1) :
           /\ read[BASE_FSEL_PIN + i] = LOW
           /\ \A j \in 0 .. (NumPatterns - 1) : read[BASE_FSEL_PIN + j] = LOW => j <= i
functionSelect(read) == ScanFrom(read, 0)

\* mutant: no wrap-around at the end of the list
nextPatternNoWrap(idx, cycle) ==
    IF cycle = 0 THEN idx ELSE idx + 1
\* mutant: the advance ignores the cycle flag
nextPatternAlways(idx, cycle) ==
    (idx + 1) % NumPatterns
\* mutant: advances by two
nextPatternSkip(idx, cycle) ==
    IF cycle = 0 THEN idx ELSE (idx + 2) % NumPatterns
\* lines 130-136
nextPattern(idx, cycle) ==
    IF cycle = 0 THEN idx ELSE (idx + 1) % NumPatterns

\* mutant: an override stores the pin offset only when it ends auto mode
applySelectionStale(f, idx, cycle) ==
    IF f = -1
    THEN IF cycle = 0
         THEN [idx |-> nextPattern(0, 1), cycle |-> 1, edge |-> TRUE]
         ELSE [idx |-> idx, cycle |-> cycle, edge |-> FALSE]
    ELSE [idx |-> (IF cycle = 1 THEN f ELSE idx), cycle |-> 0, edge |-> FALSE]
\* mutant: the sequence restarts at pattern 0 without the advance
applySelectionNoAdvance(f, idx, cycle) ==
    IF f = -1
    THEN IF cycle = 0
         THEN [idx |-> 0, cycle |-> 1, edge |-> TRUE]
         ELSE [idx |-> idx, cycle |-> cycle, edge |-> FALSE]
    ELSE [idx |-> f, cycle |-> 0, edge |-> FALSE]
\* mutant: reset and advance run in every frame without a jumper
applySelectionEveryFrame(f, idx, cycle) ==
    IF f = -1
    THEN [idx |-> nextPattern(0, 1), cycle |-> 1, edge |-> (cycle = 0)]
    ELSE [idx |-> f, cycle |-> 0, edge |-> FALSE]
\* mutant: the cycle flag is not set on the way back to auto mode
applySelectionNoEnable(f, idx, cycle) ==
    IF f = -1
    THEN IF cycle = 0
         THEN [idx |-> nextPattern(0, cycle), cycle |-> cycle, edge |-> TRUE]
         ELSE [idx |-> idx, cycle |-> cycle, edge |-> FALSE]
    ELSE [idx |-> f, cycle |-> 0, edge |-> FALSE]
\* lines 100-109: the if/else on the result of functionSelect()
applySelection(f, idx, cycle) ==
    IF f = -1
    THEN IF cycle = 0
         THEN [idx |-> nextPattern(0, 1), cycle |-> 1, edge |-> TRUE]
         ELSE [idx |-> idx, cycle |-> cycle, edge |-> FALSE]
    ELSE [idx |-> f, cycle |-> 0, edge |-> FALSE]

\* C operators on int used on line 112
BitNot(v) == 0 - v - 1
RECURSIVE BitAnd(_, _, _)
BitAnd(a, b, n) ==
    IF n = 0 THEN 0
    ELSE (IF a % 2 = 1 /\ b % 2 = 1 THEN 1 ELSE 0) + 2 * BitAnd(a \div 2, b \div 2, n - 1)
RECURSIVE BitOr(_, _, _)
BitOr(a, b, n) ==
    IF n = 0 THEN 0
    ELSE (IF a % 2 = 1 \/ b % 2 = 1 THEN 1 ELSE 0) + 2 * BitOr(a \div 2, b \div 2, n - 1)
RECURSIVE Shl(_, _)
Shl(a, k) == IF k = 0 THEN a ELSE Shl(2 * a, k - 1)

\* mutant: the two pins take each other's bit
computeBrightnessSwapped(read) ==
    BitOr(BitOr(Shl(BitAnd(BitNot(read[BSEL_PIN1]), 1, 16), 7),
                Shl(BitAnd(BitNot(read[BSEL_PIN2]), 1, 16), 6), 16),
          63, 16) % Byte
\* line 112: the value stored in the uint8_t brightness
computeBrightness(read) ==
    BitOr(BitOr(Shl(BitAnd(BitNot(read[BSEL_PIN2]), 1, 16), 7),
                Shl(BitAnd(BitNot(read[BSEL_PIN1]), 1, 16), 6), 16),
          63, 16) % Byte

(* ------------------------------------------------------------------ *)
(* Renderers: each returns the buffer and the set of elements it      *)
(* assigned                                                           *)
(* ------------------------------------------------------------------ *)
\* for( int i = 0; i < n; i++) leds[i] = colour
Fill(buf, n, colour) ==
    [buf |-> [i \in LedRange |-> IF i < n THEN colour ELSE buf[i]],
     set |-> {i \in LedRange : i < n}]

red(buf, hue) == Fill(buf, NUM_LEDS, RGB(0, 255, 0))
green(buf, hue) == Fill(buf, NUM_LEDS, RGB(255, 0, 0))
blue(buf, hue) == Fill(buf, NUM_LEDS, RGB(0, 0, 255))
white(buf, hue) == Fill(buf, NUM_LEDS, RGB(255, 255, 255))

\* mutant: the last case of the switch is missing
multiCasesShort == {0, 1, 2, 3}
\* the switch of lines 169-185: the cases that assign leds[i]
multiCases == {0, 1, 2, 3, 4}
multiColour(k) ==
    CASE k = 0 -> RGB(80, 255, 0)
      [] k = 1 -> RGB(0, 0, 255)
      [] k = 2 -> RGB(255, 0, 0)
      [] k = 3 -> RGB(0, 100, 255)
      [] OTHER -> RGB(0, 255, 0)
multi(buf, hue) ==
    [buf |-> [i \in LedRange |->
                 IF i < NUM_LEDS /\ (i % 5) \in multiCases
                 THEN multiColour(i % 5) ELSE buf[i]],
     set |-> {i \in LedRange : i < NUM_LEDS /\ (i % 5) \in multiCases}]

\* fill_rainbow(leds, NUM_LEDS, gHue, 7): pixel i gets hue gHue + 7*i (uint8),
\* saturation 240, value 255
rainbow(buf, hue) ==
    [buf |-> [i \in LedRange |->
                 IF i < NUM_LEDS
                 THEN HSV((hue + RainbowDelta * i) % Byte, 240, 255) ELSE buf[i]],
     set |-> {i \in LedRange : i < NUM_LEDS}]

\* mutant: the dispatch is off by one
CallPatternShifted(idx, buf, hue) ==
    CASE gPatterns[((idx + 1) % NumPatterns) + 1] = "red" -> red(buf, hue)
      [] gPatterns[((idx + 1) % NumPatterns) + 1] = "multi" -> multi(buf, hue)
      [] gPatterns[((idx + 1) % NumPatterns) + 1] = "blue" -> blue(buf, hue)
      [] gPatterns[((idx + 1) % NumPatterns) + 1] = "green" -> green(buf, hue)
      [] gPatterns[((idx + 1) % NumPatterns) + 1] = "white" -> white(buf, hue)
      [] gPatterns[((idx + 1) % NumPatterns) + 1] = "rainbow" -> rainbow(buf, hue)
\* gPatterns[idx]()
CallPattern(idx, buf, hue) ==
    CASE gPatterns[idx + 1] = "red" -> red(buf, hue)
      [] gPatterns[idx + 1] = "multi" -> multi(buf, hue)
      [] gPatterns[idx + 1] = "blue" -> blue(buf, hue)
      [] gPatterns[idx + 1] = "green" -> green(buf, hue)
      [] gPatterns[idx + 1] = "white" -> white(buf, hue)
      [] gPatterns[idx + 1] = "rainbow" -> rainbow(buf, hue)

(* ------------------------------------------------------------------ *)
(* Initial state: the globals of lines 49-61, before setup() runs     *)
(* ------------------------------------------------------------------ *)
gCurrentPatternNumberInit == 0
\* mutant: the flag starts enabled
gCycleInitOn == 0 + 1
gCycleInit == 0
gHueInit == 0

Init ==
    /\ pc = "setup_delay"
    /\ gCurrentPatternNumber = gCurrentPatternNumberInit
    /\ gCycle = gCycleInit
    /\ gHue = gHueInit
    /\ function = Unset
    /\ brightness = Unset
    /\ fsel = AllHigh
    /\ bsel = BselHigh
    /\ applied = Unset
    /\ leds = [i \in LedRange |-> Black]
    /\ written = {}
    /\ hueTimer = NotStarted
    /\ autoElapsed = NotStarted
    /\ shownFor = 0
    /\ edge = FALSE
    /\ autoRun = 0
    /\ frame = 0
    /\ cfg = [p \in FselPins \cup BselPins |-> 0]
    /\ log = <<>>

(* ------------------------------------------------------------------ *)
(* setup(), lines 73-91                                               *)
(* ------------------------------------------------------------------ *)
\* line 75: delay(1000)
PowerUpDelay ==
    /\ pc = "setup_delay"
    /\ pc' = "setup_addleds"
    /\ log' = Append(log, "delay1000")
    /\ UNCHANGED <<selector, locals, leds, timers, shownFor, autoRun, frame, cfg>>

\* line 78: FastLED.addLeds(...).setCorrection(TypicalLEDStrip)
AddLeds ==
    /\ pc = "setup_addleds"
    /\ pc' = "setup_fsel"
    /\ log' = Append(log, "addLeds")
    /\ UNCHANGED <<selector, locals, leds, timers, shownFor, autoRun, frame, cfg>>

\* pinMode(p, INPUT); digitalWrite(p, HIGH) for each pin of the set
PullUp(c, pins) == [p \in DOMAIN c |-> IF p \in pins THEN c[p] + 1 ELSE c[p]]

\* mutant: the loop stops one pin early
ConfigFselPinsShort ==
    /\ pc = "setup_fsel"
    /\ pc' = "setup_bsel"
    /\ cfg' = PullUp(cfg, {i \in DOMAIN cfg :
                             BASE_FSEL_PIN <= i /\ i < BASE_FSEL_PIN + NumPatterns - 1})
    /\ log' = Append(log, "pinMode_fsel")
    /\ UNCHANGED <<selector, locals, leds, timers, shownFor, autoRun, frame>>
\* lines 81-84: every function select pin to input with pull-up
ConfigFselPins ==
    /\ pc = "setup_fsel"
    /\ pc' = "setup_bsel"
    /\ cfg' = PullUp(cfg, {i \in DOMAIN cfg :
                             BASE_FSEL_PIN <= i /\ i < BASE_FSEL_PIN + NumPatterns})
    /\ log' = Append(log, "pinMode_fsel")
    /\ UNCHANGED <<selector, locals, leds, timers, shownFor, autoRun, frame>>

\* lines 87-90: the same for the brightness select pins
ConfigBselPins ==
    /\ pc = "setup_bsel"
    /\ pc' = "setup_end"
    /\ cfg' = PullUp(cfg, {BSEL_PIN1, BSEL_PIN2})
    /\ log' = Append(log, "pinMode_bsel")
    /\ UNCHANGED <<selector, locals, leds, timers, shownFor, autoRun, frame>>

\* line 91: setup() returns and loop() is called for the first time
SetupReturn ==
    /\ pc = "setup_end"
    /\ pc' = "loop_select"
    /\ log' = <<>>
    /\ UNCHANGED <<selector, locals, leds, timers, shownFor, autoRun, frame, cfg>>

(* ------------------------------------------------------------------ *)
(* loop(), lines 93-126                                               *)
(* ------------------------------------------------------------------ *)
\* lines 99-109: function = functionSelect(); then the if/else on it
FunctionSelectorOn(samples) ==
    /\ pc = "loop_select"
    /\ \E s \in samples :
         LET f == functionSelect(s)
             r == applySelection(f, gCurrentPatternNumber, gCycle) IN
         /\ fsel' = s
         /\ function' = f
         /\ gCurrentPatternNumber' = r.idx
         /\ gCycle' = r.cycle
         /\ edge' = r.edge
         /\ shownFor' = IF r.cycle = 1 /\ ~r.edge THEN shownFor ELSE 0
         /\ autoRun' = IF f = -1 THEN autoRun ELSE Overridden
    /\ pc' = "loop_brightness"
    /\ frame' = Min(frame + 1, MaxFrame)
    /\ log' = Append(log, "functionSelect")
    /\ UNCHANGED <<gHue, brightness, bsel, applied, written, leds, timers, cfg>>

FunctionSelector == FunctionSelectorOn(FselSamples)
FunctionSelectorHue == FunctionSelectorOn(FselHueSamples)

\* line 112: brightness from the two BSEL pins
BrightnessSelectorOn(samples) ==
    /\ pc = "loop_brightness"
    /\ \E b \in samples :
         /\ bsel' = b
         /\ brightness' = computeBrightness(b)
    /\ pc' = "loop_setbrightness"
    /\ log' = Append(log, "brightness")
    /\ UNCHANGED <<selector, function, fsel, applied, written, edge, leds, timers,
                   shownFor, autoRun, frame, cfg>>

BrightnessSelector == BrightnessSelectorOn(BselSamples)
BrightnessSelectorHue == BrightnessSelectorOn(BselHueSamples)

\* mutant: the brightness reaches the strip driver in auto mode only
ApplyBrightnessAutoOnly ==
    /\ pc = "loop_setbrightness"
    /\ applied' = IF gCycle = 1 THEN brightness ELSE applied
    /\ pc' = "loop_render"
    /\ log' = Append(log, "setBrightness")
    /\ UNCHANGED <<selector, function, brightness, fsel, bsel, written, edge, leds,
                   timers, shownFor, autoRun, frame, cfg>>
\* line 113: FastLED.setBrightness(brightness)
ApplyBrightness ==
    /\ pc = "loop_setbrightness"
    /\ applied' = brightness
    /\ pc' = "loop_render"
    /\ log' = Append(log, "setBrightness")
    /\ UNCHANGED <<selector, function, brightness, fsel, bsel, written, edge, leds,
                   timers, shownFor, autoRun, frame, cfg>>

\* mutant: the renderer moves the base colour on by itself
RenderHue ==
    /\ pc = "loop_render"
    /\ LET r == CallPattern(gCurrentPatternNumber, leds, gHue) IN
         /\ leds' = r.buf
         /\ written' = r.set
    /\ gHue' = IF gPatterns[gCurrentPatternNumber + 1] = "rainbow"
               THEN (gHue + 1) % Byte ELSE gHue
    /\ pc' = "loop_show"
    /\ log' = Append(log, gPatterns[gCurrentPatternNumber + 1])
    /\ UNCHANGED <<gCurrentPatternNumber, gCycle, function, brightness, fsel, bsel,
                   applied, edge, timers, shownFor, autoRun, frame, cfg>>
\* mutant: the buffer is sent out before the renderer fills it
RenderAfterShow ==
    /\ pc = "loop_render"
    /\ LET r == CallPattern(gCurrentPatternNumber, leds, gHue) IN
         /\ leds' = r.buf
         /\ written' = r.set
    /\ pc' = "loop_delay"
    /\ log' = log \o <<"show", gPatterns[gCurrentPatternNumber + 1]>>
    /\ UNCHANGED <<selector, function, brightness, fsel, bsel, applied, edge,
                   timers, shownFor, autoRun, frame, cfg>>
\* line 116: gPatterns[gCurrentPatternNumber]()
Render ==
    /\ pc = "loop_render"
    /\ LET r == CallPattern(gCurrentPatternNumber, leds, gHue) IN
         /\ leds' = r.buf
         /\ written' = r.set
    /\ pc' = "loop_show"
    /\ log' = Append(log, gPatterns[gCurrentPatternNumber + 1])
    /\ UNCHANGED <<selector, function, brightness, fsel, bsel, applied, edge,
                   timers, shownFor, autoRun, frame, cfg>>

\* line 119: FastLED.show()
Show ==
    /\ pc = "loop_show"
    /\ pc' = "loop_delay"
    /\ log' = Append(log, "show")
    /\ UNCHANGED <<selector, locals, leds, timers, shownFor, autoRun, frame, cfg>>

\* line 121: FastLED.delay(1000/FRAMES_PER_SECOND); the clock moves on
FrameDelay ==
    /\ pc = "loop_delay"
    /\ \E d \in TimeSteps :
         /\ autoElapsed' = IF autoElapsed = NotStarted THEN NotStarted
                           ELSE autoElapsed + d
         /\ shownFor' = IF gCycle = 0 THEN 0 ELSE Min(shownFor + d, AutoPeriod)
    /\ pc' = "loop_hue_timer"
    /\ log' = Append(log, "delay")
    /\ UNCHANGED <<selector, locals, leds, hueTimer, autoRun, frame, cfg>>

\* line 124: EVERY_N_MILLISECONDS( 20 ) { gHue++; }
\* the static timer object is constructed the first time the line is reached,
\* and is ready when 20 ms of millis() have passed since it last triggered
\* mutant: wraps one early
incHueShort(h) == (h + 1) % (Byte - 1)
incHue(h) == (h + 1) % Byte
HueTimerBelow(cap) ==
    /\ pc = "loop_hue_timer"
    /\ IF hueTimer = NotStarted
       THEN /\ hueTimer' = 0
            /\ UNCHANGED <<gHue, log>>
       ELSE \E ready \in (IF gHue < cap THEN BOOLEAN ELSE {FALSE}) :
              IF ready
              THEN /\ gHue' = incHue(gHue)
                   /\ log' = Append(log, "gHue++")
                   /\ UNCHANGED hueTimer
              ELSE UNCHANGED <<gHue, log, hueTimer>>
    /\ pc' = "loop_auto_timer"
    /\ UNCHANGED <<gCurrentPatternNumber, gCycle, locals, leds, autoElapsed,
                   shownFor, autoRun, frame, cfg>>

HueTimer == HueTimerBelow(MaxHue)
HueTimerFree == HueTimerBelow(Byte)

\* line 125: EVERY_N_SECONDS( 60 ) { nextPattern(); }
AutoReady == autoElapsed # NotStarted /\ autoElapsed >= AutoPeriod
AutoAdvanceTimer ==
    /\ pc = "loop_auto_timer"
    /\ IF autoElapsed = NotStarted
       THEN /\ autoElapsed' = 0
            /\ UNCHANGED <<gCurrentPatternNumber, shownFor, autoRun, log>>
       ELSE IF AutoReady
            THEN /\ autoElapsed' = 0
                 /\ gCurrentPatternNumber' = nextPattern(gCurrentPatternNumber, gCycle)
                 /\ shownFor' = IF gCurrentPatternNumber' = gCurrentPatternNumber
                                THEN shownFor ELSE 0
                 /\ autoRun' = IF autoRun = Overridden \/ gCycle = 0 THEN autoRun
                               ELSE Min(autoRun + 1, NumPatterns)
                 /\ log' = Append(log, "nextPattern")
            ELSE UNCHANGED <<autoElapsed, gCurrentPatternNumber, shownFor, autoRun, log>>
    /\ pc' = "loop_end"
    /\ UNCHANGED <<gCycle, gHue, locals, leds, hueTimer, frame, cfg>>

\* line 126: loop() returns, its locals die, and it is called again
LoopReturn ==
    /\ pc = "loop_end"
    /\ pc' = "loop_select"
    /\ function' = Unset
    /\ brightness' = Unset
    /\ fsel' = AllHigh
    /\ bsel' = BselHigh
    /\ applied' = Unset
    /\ written' = {}
    /\ edge' = FALSE
    /\ log' = <<>>
    /\ UNCHANGED <<selector, leds, timers, shownFor, autoRun, frame, cfg>>

Next ==
    \/ PowerUpDelay
    \/ AddLeds
    \/ ConfigFselPins
    \/ ConfigBselPins
    \/ SetupReturn
    \/ FunctionSelector
    \/ BrightnessSelector
    \/ ApplyBrightness
    \/ Render
    \/ Show
    \/ FrameDelay
    \/ HueTimer
    \/ AutoAdvanceTimer
    \/ LoopReturn

Spec == Init /\ [][Next]_vars

\* the same program with the hue timer unrestricted and fewer jumper inputs
NextHue ==
    \/ PowerUpDelay
    \/ AddLeds
    \/ ConfigFselPins
    \/ ConfigBselPins
    \/ SetupReturn
    \/ FunctionSelectorHue
    \/ BrightnessSelectorHue
    \/ ApplyBrightness
    \/ Render
    \/ Show
    \/ FrameDelay
    \/ HueTimerFree
    \/ AutoAdvanceTimer
    \/ LoopReturn

SpecHue == Init /\ [][NextHue]_vars

TypeOK ==
    /\ gCurrentPatternNumber \in 0 .. (Byte - 1)
    /\ gCycle \in {0, 1}
    /\ gHue \in 0 .. (Byte - 1)

(* ------------------------------------------------------------------ *)
(* Helpers of the properties                                          *)
(* ------------------------------------------------------------------ *)
Grounded(s) == {p \in DOMAIN s : s[p] = LOW}
LowestGrounded(s) == CHOOSE p \in Grounded(s) : \A q \in Grounded(s) : p <= q
Last(q) == q[Len(q)]
Fired(what) == Len(log) > 0 /\ Last(log) = what
RECURSIVE Advance(_, _)
Advance(i, k) == IF k = 0 THEN i ELSE Advance(nextPattern(i, 1), k - 1)

(* ------------------------------------------------------------------ *)
(* Properties                                                         *)
(* ------------------------------------------------------------------ *)
\* C1: in every reachable state the current pattern index is a valid index
\* of gPatterns, 0 <= index < 6, so the dispatch on line 116 is in bounds.
C1_IndexInBounds ==
    /\ NumPatterns = 6
    /\ gCurrentPatternNumber \in 0 .. (NumPatterns - 1)
\* the timer has just wrapped the index from the last pattern to the first
C1_Witness ==
    /\ pc = "loop_end"
    /\ Fired("nextPattern")
    /\ gCycle = 1
    /\ gCurrentPatternNumber = 0
    /\ function = -1

\* C2: when at least one function pin reads low in a frame, after the
\* selector step the index is the offset of the lowest such pin and the
\* auto-cycle flag is off.
C2_LowestGroundedWins ==
    (pc = "loop_brightness" /\ Grounded(fsel) # {}) =>
        /\ gCurrentPatternNumber = LowestGrounded(fsel) - BASE_FSEL_PIN
        /\ gCycle = 0
\* two pins grounded, neither of them the first one, after the first frame
C2_Witness ==
    /\ pc = "loop_brightness"
    /\ Cardinality(Grounded(fsel)) >= 2
    /\ LowestGrounded(fsel) > BASE_FSEL_PIN
    /\ gCurrentPatternNumber = LowestGrounded(fsel) - BASE_FSEL_PIN
    /\ shownFor = 0
    /\ frame > 1

\* C3: when no function pin reads low in a frame, functionSelect returns -1
\* and the flag is on after the selector step; so after the selector step
\* the flag is on exactly when no pin read low.
C3_AutoIffNoneGrounded ==
    (pc = "loop_brightness") =>
        /\ (Grounded(fsel) = {} => function = -1 /\ gCycle = 1)
        /\ (gCycle = 1 <=> Grounded(fsel) = {})
\* the flag was off before the frame (an override was in place) and the
\* selector has switched it back on
C3_Witness ==
    /\ pc = "loop_brightness"
    /\ Grounded(fsel) = {}
    /\ edge
    /\ frame > 1
    /\ gCycle = 1

\* C4: the brightness of a frame is 63, 127, 191 or 255 for no pin, the
\* lower pin, the upper pin or both pins grounded, and fits 8 bits.
C4_BrightnessTable ==
    (pc = "loop_setbrightness") =>
        /\ brightness = 63 + (IF bsel[BSEL_PIN1] = LOW THEN 64 ELSE 0)
                           + (IF bsel[BSEL_PIN2] = LOW THEN 128 ELSE 0)
        /\ (bsel[BSEL_PIN1] = HIGH /\ bsel[BSEL_PIN2] = HIGH => brightness = 63)
        /\ (bsel[BSEL_PIN1] = LOW /\ bsel[BSEL_PIN2] = HIGH => brightness = 127)
        /\ (bsel[BSEL_PIN1] = HIGH /\ bsel[BSEL_PIN2] = LOW => brightness = 191)
        /\ (bsel[BSEL_PIN1] = LOW /\ bsel[BSEL_PIN2] = LOW => brightness = 255)
        /\ brightness \in 0 .. 255
\* only the lower pin is grounded
C4_Witness ==
    /\ pc = "loop_setbrightness"
    /\ bsel[BSEL_PIN1] = LOW
    /\ bsel[BSEL_PIN2] = HIGH
    /\ brightness = 127

\* C5: a frame that finds the flag off and no function pin grounded ends,
\* timer step included, with the index at 1.
C5_IndexOneAfterTransitionFrame ==
    (pc = "loop_end" /\ edge) => gCurrentPatternNumber = 1

\* C6: with auto-cycle on, a trigger of the 60 second timer takes the index
\* from i to (i + 1) mod 6 and leaves the flag on, so 6 triggers in a row
\* visit each index once, in increasing order, and come back to the start.
C6_AdvanceByOne ==
    /\ [][(pc = "loop_auto_timer" /\ AutoReady /\ gCycle = 1) =>
            /\ gCurrentPatternNumber' = (gCurrentPatternNumber + 1) % NumPatterns
            /\ gCycle' = 1]_vars
    /\ [](gCycle = 1 =>
            /\ \A k \in 1 .. NumPatterns :
                 Advance(gCurrentPatternNumber, k) = (gCurrentPatternNumber + k) % NumPatterns
            /\ {Advance(gCurrentPatternNumber, k) : k \in 1 .. NumPatterns}
                 = 0 .. (NumPatterns - 1))
\* the timer has advanced the index in auto mode to the last pattern
C6_Witness ==
    /\ pc = "loop_end"
    /\ Fired("nextPattern")
    /\ gCycle = 1
    /\ gCurrentPatternNumber = NumPatterns - 1
    /\ shownFor = 0

\* C7: a trigger of the 20 ms timer adds 1 to the hue modulo 256 and touches
\* neither the index nor the flag, whatever they and the pins are.
C7_HueIncrement ==
    [][(pc = "loop_hue_timer" /\ log' = Append(log, "gHue++")) =>
         /\ gHue' = (gHue + 1) % 256
         /\ gCurrentPatternNumber' = gCurrentPatternNumber
         /\ gCycle' = gCycle]_vars
\* the hue has wrapped from 255 to 0 while a jumper overrides the pattern
C7_Witness ==
    /\ pc = "loop_auto_timer"
    /\ Fired("gHue++")
    /\ gHue = 0
    /\ gCycle = 0
    /\ function = NumPatterns - 1

\* C8: after the renderer call of a frame, whichever of the 6 patterns it
\* was, every element 0 .. NUM_LEDS-1 of the buffer has been assigned by it.
C8_BufferFullyWritten ==
    (pc = "loop_show") =>
        /\ written = 0 .. (NUM_LEDS - 1)
        /\ DOMAIN leds = 0 .. (NUM_LEDS - 1)
\* multi has been rendered over the buffer an earlier frame filled
C8_Witness ==
    /\ pc = "loop_show"
    /\ gPatterns[gCurrentPatternNumber + 1] = "multi"
    /\ frame > 1
    /\ written = 0 .. (NUM_LEDS - 1)
    /\ leds[4] = RGB(0, 255, 0)

\* C9: before the first loop iteration the index is 0, the flag is on and
\* the hue is 0.
C9_StartsEnabled ==
    (frame = 0) =>
        gCurrentPatternNumber = 0 /\ gCycle = 1 /\ gHue = 0
\* C9 as amended: before the first loop iteration the index is 0, the flag
\* is off and the hue is 0.
C9_StartsDisabled ==
    (frame = 0) =>
        gCurrentPatternNumber = 0 /\ gCycle = 0 /\ gHue = 0
\* setup() has returned and the first loop iteration is about to start
C9_Witness ==
    /\ pc = "loop_select"
    /\ frame = 0
    /\ {p \in DOMAIN cfg : cfg[p] > 0} = FselPins \cup BselPins

\* C10: with no function pin grounded, the timer moves on to the next
\* pattern only when the current one has been current for a full minute.
C10_FullMinutePerPattern ==
    (pc = "loop_auto_timer" /\ AutoReady /\ gCycle = 1) =>
        shownFor >= AutoPeriod

\* the positions of loop() after the renderer call
AfterRender == {"loop_show", "loop_delay", "loop_hue_timer", "loop_auto_timer", "loop_end"}
\* the renderer this iteration has called
RenderedName == log[4]

\* C11: in every frame whose lowest grounded function pin is p, the pattern
\* rendered is gPatterns[p - BASE_FSEL_PIN] and the index still is p -
\* BASE_FSEL_PIN when the iteration ends, whichever timers triggered; a frame
\* that finds the jumper gone renders from its own sample (pattern 1).
C11_StickyOverride ==
    (pc \in AfterRender) =>
        /\ (Grounded(fsel) # {} =>
              /\ RenderedName = gPatterns[LowestGrounded(fsel) - BASE_FSEL_PIN + 1]
              /\ gCurrentPatternNumber = LowestGrounded(fsel) - BASE_FSEL_PIN
              /\ gCycle = 0)
        /\ (Grounded(fsel) = {} /\ edge => RenderedName = gPatterns[2])
\* both timers have triggered in an override frame and the override holds
C11_Witness ==
    /\ pc = "loop_end"
    /\ Len(log) = 8
    /\ log[7] = "gHue++"
    /\ log[8] = "nextPattern"
    /\ Grounded(fsel) = {BASE_FSEL_PIN + 3, BASE_FSEL_PIN + 4}
    /\ RenderedName = "green"
    /\ gCurrentPatternNumber = 3

\* C12: a trigger of the 60 second timer while auto-cycle is off changes
\* neither the index nor the flag, and nothing is saved up: the selector
\* step that switches auto-cycle back on leaves the index at 1.
C12_DisabledTimerNoOp ==
    /\ [][(pc = "loop_auto_timer" /\ AutoReady /\ gCycle = 0) =>
            /\ gCurrentPatternNumber' = gCurrentPatternNumber
            /\ gCycle' = gCycle
            /\ log' = Append(log, "nextPattern")]_vars
    /\ []((pc = "loop_brightness" /\ edge) =>
            gCurrentPatternNumber = 1 /\ gCycle = 1)
\* the timer has triggered in an override frame, the hue timer has not
C12_Witness ==
    /\ pc = "loop_end"
    /\ Len(log) = 7
    /\ Fired("nextPattern")
    /\ gCycle = 0
    /\ function = 0
    /\ gCurrentPatternNumber = 0
    /\ autoElapsed = 0

PatternNames == {gPatterns[i] : i \in 1 .. NumPatterns}
\* the calls of one iteration up to the frame-pacing wait, with renderer p
FrameCalls(p) == <<"functionSelect", "brightness", "setBrightness", p, "show", "delay">>
IsPrefix(a, b) == Len(a) <= Len(b) /\ a = SubSeq(b, 1, Len(a))

\* C13: every loop iteration runs selector, brightness computation,
\* setBrightness, renderer, show, delay and then the two timers, in this
\* order and each once; so the buffer is rendered before it is sent, and an
\* index the 60 s timer advanced has not been rendered in the same iteration.
C13_FrameOrder ==
    /\ (pc = "loop_select" => log = <<>>)
    /\ (pc = "loop_brightness" => log = SubSeq(FrameCalls("none"), 1, 1))
    /\ (pc = "loop_setbrightness" => log = SubSeq(FrameCalls("none"), 1, 2))
    /\ (pc = "loop_render" => log = SubSeq(FrameCalls("none"), 1, 3))
    /\ (pc \in AfterRender =>
          /\ RenderedName \in PatternNames
          /\ IsPrefix(log, FrameCalls(RenderedName) \o <<"gHue++", "nextPattern">>)
             \/ log = FrameCalls(RenderedName) \o <<"nextPattern">>)
    /\ (pc = "loop_show" => Len(log) = 4)
    /\ (pc = "loop_delay" => Len(log) = 5)
    /\ (pc = "loop_hue_timer" => Len(log) = 6)
    /\ (pc = "loop_auto_timer" => Len(log) \in {6, 7} /\ ~Fired("nextPattern"))
    /\ (pc = "loop_end" => Len(log) \in {6, 7, 8})
    /\ (pc = "loop_end" /\ Fired("nextPattern") /\ gCycle = 1 =>
          RenderedName # gPatterns[gCurrentPatternNumber + 1])
\* an iteration in which both timers triggered: blue was rendered and sent,
\* the index now points at green
C13_Witness ==
    /\ pc = "loop_end"
    /\ log = FrameCalls("blue") \o <<"gHue++", "nextPattern">>
    /\ gCurrentPatternNumber = 3
    /\ gCycle = 1
    /\ written = LedRange

\* C14: in a frame that finds the flag off and no function pin grounded the
\* selector leaves the index at 1 and the flag on, and the pattern rendered
\* in that frame is gPatterns[1], never gPatterns[0].
C14_TransitionRendersOne ==
    /\ [][(pc = "loop_select" /\ gCycle = 0 /\ Grounded(fsel') = {}) =>
            /\ gCurrentPatternNumber' = 1
            /\ gCycle' = 1
            /\ edge']_vars
    /\ []((pc \in AfterRender /\ edge) =>
            /\ RenderedName = gPatterns[2]
            /\ RenderedName # gPatterns[1])
    /\ []((pc = "loop_show" /\ edge) =>
            /\ gCurrentPatternNumber = 1
            /\ leds = multi(leds, gHue).buf)
\* the frame after an override: multi has been rendered
C14_Witness ==
    /\ pc = "loop_show"
    /\ edge
    /\ autoRun = Overridden
    /\ frame > 1
    /\ RenderedName = "multi"
    /\ leds[0] = RGB(80, 255, 0)

\* C15: a selector step that finds no function pin grounded and the flag
\* already on changes neither the index nor the flag; while the flag stays
\* on, the index changes only in a step of the 60 s timer that is due.
C15_EdgeTriggered ==
    /\ [][(pc = "loop_select" /\ gCycle = 1 /\ Grounded(fsel') = {}) =>
            /\ gCurrentPatternNumber' = gCurrentPatternNumber
            /\ gCycle' = gCycle
            /\ ~edge']_vars
    /\ [][(gCycle = 1 /\ gCycle' = 1 /\ gCurrentPatternNumber' # gCurrentPatternNumber) =>
            (pc = "loop_auto_timer" /\ AutoReady)]_vars
\* a selector step in auto mode that left the index at 4
C15_Witness ==
    /\ pc = "loop_brightness"
    /\ function = -1
    /\ ~edge
    /\ gCycle = 1
    /\ gCurrentPatternNumber = 4

\* the buffer the i-th entry of the registry of line 57 produces
RegistryBuf(i) ==
    CASE i = 0 -> red(leds, gHue).buf
      [] i = 1 -> multi(leds, gHue).buf
      [] i = 2 -> blue(leds, gHue).buf
      [] i = 3 -> green(leds, gHue).buf
      [] i = 4 -> white(leds, gHue).buf
      [] i = 5 -> rainbow(leds, gHue).buf
RendererCalls == Cardinality({k \in 1 .. Len(log) : log[k] \in PatternNames})

\* C16: every loop iteration calls exactly one renderer, once, and it is the
\* registry entry at the index the selector step left.
C16_OneRendererPerFrame ==
    /\ (pc \in {"loop_select", "loop_brightness", "loop_setbrightness", "loop_render"} =>
          RendererCalls = 0)
    /\ (pc \in AfterRender => RendererCalls = 1)
    /\ (pc \in {"loop_show", "loop_delay", "loop_hue_timer"} =>
          /\ RenderedName = gPatterns[gCurrentPatternNumber + 1]
          /\ leds = RegistryBuf(gCurrentPatternNumber))
    /\ (pc \in AfterRender /\ function >= 0 =>
          RenderedName = gPatterns[function + 1])
\* the last registry entry has been rendered with hue 1
C16_Witness ==
    /\ pc = "loop_show"
    /\ gCurrentPatternNumber = NumPatterns - 1
    /\ RenderedName = "rainbow"
    /\ gHue = 1
    /\ leds[1] = HSV(1 + RainbowDelta, 240, 255)
    /\ RendererCalls = 1

\* C17: the brightness handed to the strip driver in a frame is determined
\* by the two brightness-pin levels read in that frame alone: it is the same
\* function of them in every reachable state, whatever the function pins,
\* index, flag, hue, timers and earlier frames were; before the call of a
\* frame nothing has been handed over.
C17_BrightnessOnlyFromPins ==
    /\ (pc \in {"loop_render"} \cup AfterRender =>
          applied = (IF bsel = [p \in BselPins |-> HIGH] THEN 63
                     ELSE IF bsel = [p \in BselPins |-> LOW] THEN 255
                     ELSE IF bsel[BSEL_PIN1] = LOW THEN 127 ELSE 191))
    /\ (pc \in {"loop_select", "loop_brightness", "loop_setbrightness"} =>
          applied = Unset)
\* only the upper pin is grounded, in an override frame after the first
C17_Witness ==
    /\ pc = "loop_show"
    /\ applied = 191
    /\ bsel[BSEL_PIN2] = LOW
    /\ bsel[BSEL_PIN1] = HIGH
    /\ gCycle = 0
    /\ frame > 1

SetupCalls == <<"delay1000", "addLeds", "pinMode_fsel", "pinMode_bsel">>
InSetup == pc \in {"setup_delay", "setup_addleds", "setup_fsel", "setup_bsel", "setup_end"}
Pulled(pins, n) == \A p \in pins : cfg[p] = n

\* C18: setup() calls delay(1000) first and once, before the strip driver is
\* set up and before any pin is configured, and sends nothing; when loop()
\* starts each of the 6 function pins and both brightness pins has been made
\* a pulled-up input exactly once, and that never changes afterwards.
C18_StartupOrder ==
    /\ (pc = "setup_delay" => log = <<>> /\ Pulled(FselPins \cup BselPins, 0))
    /\ (pc = "setup_addleds" =>
          log = SubSeq(SetupCalls, 1, 1) /\ Pulled(FselPins \cup BselPins, 0))
    /\ (pc = "setup_fsel" =>
          log = SubSeq(SetupCalls, 1, 2) /\ Pulled(FselPins \cup BselPins, 0))
    /\ (pc = "setup_bsel" =>
          log = SubSeq(SetupCalls, 1, 3) /\ Pulled(FselPins, 1) /\ Pulled(BselPins, 0))
    /\ (pc = "setup_end" => log = SetupCalls /\ Pulled(FselPins \cup BselPins, 1))
    /\ (~InSetup =>
          /\ Pulled(FselPins \cup BselPins, 1)
          /\ Cardinality(FselPins) = 6
          /\ \A k \in 1 .. Len(log) : log[k] # "delay1000")
    /\ (InSetup => frame = 0 /\ fsel = AllHigh /\ bsel = BselHigh /\ written = {})
\* setup() is about to return
C18_Witness ==
    /\ pc = "setup_end"
    /\ log = SetupCalls
    /\ Pulled(FselPins \cup BselPins, 1)
    /\ frame = 0

\* C19: after power-up with no function pin grounded the first frame renders
\* gPatterns[1], not gPatterns[0]; as long as no function pin has read low,
\* gPatterns[0] is rendered only once the 60 s timer has advanced the index
\* NumPatterns - 1 times.
C19_PowerUpStartsAtOne ==
    (pc \in AfterRender) =>
        /\ (frame = 1 /\ Grounded(fsel) = {} =>
              /\ RenderedName = gPatterns[2]
              /\ edge)
        /\ (autoRun # Overridden /\ RenderedName = gPatterns[1] =>
              autoRun >= NumPatterns - 1)
\* red is rendered for the first time, after five advances of the timer
C19_Witness ==
    /\ pc = "loop_show"
    /\ autoRun = NumPatterns - 1
    /\ RenderedName = "red"
    /\ gCurrentPatternNumber = 0

\* C20: the flag changes only in the selector step, the hue only in the hue
\* timer step; the hue timer step leaves index and flag alone, the selector
\* and the 60 s timer leave the hue alone, and the brightness steps and the
\* renderer call change none of index, flag and hue.
C20_WritersPerField ==
    [][/\ (gCycle' # gCycle => pc = "loop_select")
       /\ (gHue' # gHue => pc = "loop_hue_timer")
       /\ (pc = "loop_hue_timer" =>
             gCurrentPatternNumber' = gCurrentPatternNumber /\ gCycle' = gCycle)
       /\ (pc \in {"loop_select", "loop_auto_timer"} => gHue' = gHue)
       /\ (pc = "loop_auto_timer" => gCycle' = gCycle)
       /\ (pc \in {"loop_brightness", "loop_setbrightness", "loop_render"} =>
             /\ gCurrentPatternNumber' = gCurrentPatternNumber
             /\ gCycle' = gCycle
             /\ gHue' = gHue)]_vars
\* rainbow was rendered, then both timers triggered: hue and index moved on
C20_Witness ==
    /\ pc = "loop_end"
    /\ log = FrameCalls("rainbow") \o <<"gHue++", "nextPattern">>
    /\ gCycle = 1
    /\ gCurrentPatternNumber = 0
    /\ gHue = 2

====
